---- MODULE Spec2Model ----
(***************************************************************************)
(* Model of backend/server.py: the metal price endpoints.                  *)
(*                                                                         *)
(* Numbers are fixed point, in hundredths: a USD-per-ounce quote of        *)
(* 2000.00 is 200000, an INR-per-gram price of 7200.0 is 720000, a change  *)
(* of 15.5 is 1550.  Metal names are sequences of one-character strings,   *)
(* so that str.lower() and str.title() are computed, not assumed.          *)
(***************************************************************************)
EXTENDS Integers, Sequences, FiniteSets, TLC

VARIABLES
    endpoint,   \* "idle" | "single" | "all": the route being served
    metals,     \* the metal argument of each get_metal_price coroutine
    pc,         \* per coroutine: "scheduled" | "awaiting" | "done"
    requests,   \* per coroutine: outbound client.get calls issued
    upstream,   \* per coroutine: what client.get produced (NoResponse before)
    logged,     \* per coroutine: what fetch_metal_price_from_api logged
    result,     \* per coroutine: what get_metal_price returned or raised
    clock,      \* datetime.now(): advances whenever a coroutine ends
    response    \* what the route handler returned or raised (NoReply before)

vars == <<endpoint, metals, pc, requests, upstream, logged, result, clock, response>>

----------------------------------------------------------------------------
(* Bounds of the model. *)

\* Numeric quotes of the provider are q * 1000.00 USD for q in -1..MaxQuote.
MaxQuote == 2

----------------------------------------------------------------------------
(* Strings: str.lower() and str.title() over sequences of characters. *)

UpperCase == <<"A","B","C","D","E","F","G","H","I","J","K","L","M",
               "N","O","P","Q","R","S","T","U","V","W","X","Y","Z">>
LowerCase == <<"a","b","c","d","e","f","g","h","i","j","k","l","m",
               "n","o","p","q","r","s","t","u","v","w","x","y","z">>

\* The two tables as maps from a letter to its other case.
ToLower == [c \in { UpperCase[i] : i \in 1..26 } |->
              LowerCase[CHOOSE i \in 1..26 : UpperCase[i] = c]]
ToUpper == [c \in { LowerCase[i] : i \in 1..26 } |->
              UpperCase[CHOOSE i \in 1..26 : LowerCase[i] = c]]

IsUpper(c) == c \in DOMAIN ToLower
IsLower(c) == c \in DOMAIN ToUpper
IsCased(c) == IsUpper(c) \/ IsLower(c)

LowerChar(c) == IF IsUpper(c) THEN ToLower[c] ELSE c
UpperChar(c) == IF IsLower(c) THEN ToUpper[c] ELSE c

\* str.lower()
Lower(s) == [i \in 1..Len(s) |-> LowerChar(s[i])]

\* str.title(): a letter that follows a cased letter is lowered, any other
\* letter starts a word and is raised.
Title(s) == [i \in 1..Len(s) |->
               IF i > 1 /\ IsCased(s[i-1]) THEN LowerChar(s[i]) ELSE UpperChar(s[i])]

gold      == <<"g","o","l","d">>
silver    == <<"s","i","l","v","e","r">>
platinum  == <<"p","l","a","t","i","n","u","m">>
palladium == <<"p","a","l","l","a","d","i","u","m">>

\* The keys of metal_endpoints.
metal_endpoints == {gold, silver, platinum, palladium}

\* The list `metals` of get_all_metal_prices.
AllMetals == <<gold, silver, platinum, palladium>>

\* Path parameters tried on GET /metals/{metal}.
MetalNames ==
    metal_endpoints \cup
    { <<"G","o","l","d">>, <<"G","O","L","D">>, <<"s","I","L","v","e","r">>,
      <<"P","l","a","t","i","n","u","m">>,
      <<"i","n","v","a","l","i","d">>, <<"x","a","u">>,
      <<"g","o","l","d","1">>, <<"r","o","s","e","-","g","o","l","d">> }

----------------------------------------------------------------------------
(* JSON values of the provider's payload, and Python's None. *)

None == [type |-> "None"]

Num(n)  == [t |-> "num", v |-> n]
Null    == [t |-> "null", v |-> 0]       \* JSON null: Python None as a value
NaS     == [t |-> "str", v |-> 0]        \* a string that is no number
Absent  == [t |-> "absent", v |-> 0]     \* the key is not in the payload

\* Mutant of Get: a missing key reads as 0 whatever default the caller gave.
GetZeroDefault(value, default) == IF value.t = "absent" THEN Num(0) ELSE value

\* dict.get(key, default): the default only when the key is absent.
Get(value, default) == IF value.t = "absent" THEN default ELSE value

IsNumber(value) == value.t = "num"

----------------------------------------------------------------------------
(* MOCK_METAL_PRICES, in hundredths. *)

MOCK_METAL_PRICES ==
    [m \in metal_endpoints |->
        CASE m = gold ->
               [price_per_oz_usd |-> 265000, price_per_gram_inr |-> 720000,
                change_24h |-> 1550, change_pct |-> 58,
                prev_close_price |-> 718450, open_price |-> 719000,
                high_price |-> 722000, low_price |-> 718000]
          [] m = silver ->
               [price_per_oz_usd |-> 3120, price_per_gram_inr |-> 8550,
                change_24h |-> 80, change_pct |-> 263,
                prev_close_price |-> 8470, open_price |-> 8500,
                high_price |-> 8620, low_price |-> 8450]
          [] m = platinum ->
               [price_per_oz_usd |-> 98500, price_per_gram_inr |-> 268000,
                change_24h |-> -1230, change_pct |-> -46,
                prev_close_price |-> 269230, open_price |-> 268500,
                high_price |-> 269500, low_price |-> 267500]
          [] m = palladium ->
               [price_per_oz_usd |-> 105000, price_per_gram_inr |-> 285500,
                change_24h |-> 2210, change_pct |-> 78,
                prev_close_price |-> 283290, open_price |-> 284000,
                high_price |-> 286000, low_price |-> 283500]]

\* Mutant of MockGet: the table lacks palladium.
MockGetPartial(key) ==
    IF key \in DOMAIN MOCK_METAL_PRICES /\ key # palladium
    THEN MOCK_METAL_PRICES[key] ELSE None

\* MOCK_METAL_PRICES.get(key)
MockGet(key) == IF key \in DOMAIN MOCK_METAL_PRICES THEN MOCK_METAL_PRICES[key] ELSE None

----------------------------------------------------------------------------
(* Unit conversion: round((usd_per_oz / 31.1035) * usd_to_inr, 2). *)

\* usd_to_inr = 83.5, in tenths.
usd_to_inr_x10 == 835

\* Grams per troy ounce, 31.1035, in ten-thousandths.
GramsPerOzE4 == 311035

\* round() of (a * b * c) / d for a, b, c >= 0 and d > 0: to the nearest integer,
\* a tie to the even one.  The product is divided in two stages so that no
\* intermediate value leaves the 32-bit integers.
RoundMulDivNat(a, b, c, d) ==
    LET q1 == (a * b) \div d
        r1 == (a * b) % d
        q  == q1 * c + (r1 * c) \div d
        r  == (r1 * c) % d
    IN  IF 2 * r < d THEN q
        ELSE IF 2 * r > d THEN q + 1
        ELSE IF q % 2 = 0 THEN q ELSE q + 1

\* Mutant of inr_per_gram: the result is cut to 2 decimals, not rounded.
inr_per_gram_truncated(usd) ==
    IF usd >= 0 THEN ((usd * usd_to_inr_x10) \div GramsPerOzE4) * 1000
                     + (((usd * usd_to_inr_x10) % GramsPerOzE4) * 1000) \div GramsPerOzE4
    ELSE 0 - (((0 - usd) * usd_to_inr_x10) \div GramsPerOzE4) * 1000
           - ((((0 - usd) * usd_to_inr_x10) % GramsPerOzE4) * 1000) \div GramsPerOzE4

\* Hundredths of USD per ounce to hundredths of INR per gram:
\* round((usd / 31.1035) * 83.5, 2).  round() is symmetric about 0.
inr_per_gram(usd) ==
    IF usd >= 0 THEN RoundMulDivNat(usd, usd_to_inr_x10, 1000, GramsPerOzE4)
    ELSE 0 - RoundMulDivNat(0 - usd, usd_to_inr_x10, 1000, GramsPerOzE4)

----------------------------------------------------------------------------
(* What the provider can answer. *)

\* Numeric quotes, in hundredths of USD per ounce.
Quotes == { q * 100000 : q \in -1..MaxQuote }

OhlcFields == {"prev_close_price", "open_price", "high_price", "low_price"}

\* JSON objects the provider may send on GET /metals/{metal}.
Payloads ==
    [ price            : {Absent, Null, NaS} \cup { Num(q) : q \in Quotes },
      ch               : {Absent, Null, Num(1000), Num(-250)},
      chp              : {Absent, NaS, Num(50)},
      prev_close_price : {Absent, Null, Num(199000)},
      open_price       : {Absent, Num(199500)},
      high_price       : {Absent, Num(200500)},
      low_price        : {Absent, NaS, Num(0), Num(198500)} ]

EmptyPayload ==
    [ price |-> Absent, ch |-> Absent, chp |-> Absent, prev_close_price |-> Absent,
      open_price |-> Absent, high_price |-> Absent, low_price |-> Absent ]

\* The provider's quote for the i-th metal of GET /metals: each metal has its own.
BatchQuote(i) == (MaxQuote * 100000) \div i

\* The payloads tried on GET /metals, where four requests are in flight.
BatchPayloads(i) ==
    { [EmptyPayload EXCEPT !.price = p, !.ch = c] :
        p \in {Absent, Num(BatchQuote(i))}, c \in {Absent, Null} }

\* An httpx.Response: its status and what response.json() makes of its body.
HttpResponse(status, json, data) ==
    [kind |-> "response", status_code |-> status, json |-> json, data |-> data]

\* An exception raised by client.get.
HttpxError(name) ==
    [kind |-> name, status_code |-> 0, json |-> "none", data |-> EmptyPayload]

NoResponse == HttpxError("pending")
ConnectError == HttpxError("ConnectError")
TimeoutException == HttpxError("TimeoutException")

\* What client.get of coroutine i can produce other than a timeout, per route.
Responses(route, i) ==
    IF route = "single"
    THEN { HttpResponse(200, "object", p) : p \in Payloads }
         \cup { HttpResponse(200, j, EmptyPayload) : j \in {"array", "invalid"} }
         \cup { HttpResponse(st, "object", EmptyPayload) : st \in {403, 500} }
         \cup { ConnectError }
    ELSE { HttpResponse(200, "object", p) : p \in BatchPayloads(i) }
         \cup { HttpResponse(500, "object", EmptyPayload) }

----------------------------------------------------------------------------
(* fetch_metal_price_from_api *)

\* `metal.lower() not in metal_endpoints`, negated.
Supported(metal) == Lower(metal) \in metal_endpoints

\* What the function hands back: its return value and what it logged.
FetchOutcome(ret, log) == [ret |-> ret, log |-> log]

\* The raise of HTTPException(400) is inside the try: `except Exception`
\* catches it, logs it and returns None.
FetchUnsupported == FetchOutcome(None, "error: 400 Unsupported metal")

\* The dict built from a 200 response whose fields are all numbers.
ApiData(data) ==
    LET price_per_oz_usd == Get(data.price, Num(0))
    IN  [ price_per_oz_usd   |-> price_per_oz_usd.v,
          price_per_gram_inr |-> inr_per_gram(price_per_oz_usd.v),
          change_24h         |-> Get(data.ch, Num(0)),
          change_pct         |-> Get(data.chp, Num(0)),
          prev_close_price   |-> inr_per_gram(Get(data.prev_close_price, price_per_oz_usd).v),
          open_price         |-> inr_per_gram(Get(data.open_price, price_per_oz_usd).v),
          high_price         |-> inr_per_gram(Get(data.high_price, price_per_oz_usd).v),
          low_price          |-> inr_per_gram(Get(data.low_price, price_per_oz_usd).v) ]

\* The function from the return of client.get on: `resp` is the response or
\* the exception of the request.
FetchResponse(resp) ==
    IF resp.kind # "response"
    THEN FetchOutcome(None, "error: request failed")
    ELSE IF resp.status_code # 200
    THEN FetchOutcome(None, "warning: status")
    ELSE IF resp.json = "invalid"
    THEN FetchOutcome(None, "error: json")                 \* response.json() raises
    ELSE IF resp.json # "object"
    THEN FetchOutcome(None, "error: no get")               \* data.get: AttributeError
    ELSE LET price == Get(resp.data.price, Num(0))
         IN  IF \/ ~IsNumber(price)
                \/ \E f \in OhlcFields : ~IsNumber(Get(resp.data[f], price))
             THEN FetchOutcome(None, "error: arithmetic")  \* None / float: TypeError
             ELSE FetchOutcome(ApiData(resp.data), "none")

----------------------------------------------------------------------------
(* get_metal_price *)

\* What a coroutine ends with: a returned value or a raised exception.
Return(value) == [kind |-> "return", value |-> value, exc |-> "none", status_code |-> 200]
Raise(exc, status) == [kind |-> "raise", value |-> None, exc |-> exc, status_code |-> status]
NoResult == [kind |-> "pending", value |-> None, exc |-> "none", status_code |-> 0]

\* The pydantic model: every float field must be given a number.  The two
\* time fields are renderings of the same datetime.now(), here the number of
\* resolutions that ended before this one.
MetalPriceResponse(metal, price_per_gram_inr, now, prev_close_price, open_price, high_price, low_price, change_24h, change_pct) ==
    IF \A x \in {price_per_gram_inr, prev_close_price, open_price, high_price,
                 low_price, change_24h, change_pct} : IsNumber(x)
    THEN Return([ metal              |-> metal,
                  price_per_gram_inr |-> price_per_gram_inr.v,
                  current_time       |-> now,
                  prev_close_price   |-> prev_close_price.v,
                  open_price         |-> open_price.v,
                  high_price         |-> high_price.v,
                  low_price          |-> low_price.v,
                  change_24h         |-> change_24h.v,
                  change_pct         |-> change_pct.v,
                  timestamp          |-> now ])
    ELSE Raise("ValidationError", 500)

\* `if api_data:` a dict is true unless it is empty.
Truthy(x) == x # None /\ DOMAIN x # {}

\* The branch taken when api_data is truthy.
FromApi(metal, api_data, now) ==
    MetalPriceResponse(Title(metal), Num(api_data.price_per_gram_inr), now,
                       Num(api_data.prev_close_price), Num(api_data.open_price),
                       Num(api_data.high_price), Num(api_data.low_price),
                       api_data.change_24h, api_data.change_pct)

\* Mutant of FromMock: the entry is converted as if it were a USD-per-ounce quote.
FromMockConverted(metal, mock_data, now) ==
    MetalPriceResponse(Title(metal), Num(inr_per_gram(mock_data.price_per_oz_usd)), now,
                       Num(inr_per_gram(mock_data.prev_close_price)),
                       Num(inr_per_gram(mock_data.open_price)),
                       Num(inr_per_gram(mock_data.high_price)),
                       Num(inr_per_gram(mock_data.low_price)),
                       Num(mock_data.change_24h), Num(mock_data.change_pct))

\* The fallback branch with an entry of MOCK_METAL_PRICES.
FromMock(metal, mock_data, now) ==
    MetalPriceResponse(Title(metal), Num(mock_data.price_per_gram_inr), now,
                       Num(mock_data.prev_close_price), Num(mock_data.open_price),
                       Num(mock_data.high_price), Num(mock_data.low_price),
                       Num(mock_data.change_24h), Num(mock_data.change_pct))

\* Mutant of NotFound: the status of the failure raised inside the fetch.
NotFoundAs400(metal) == Raise("HTTPException", 400)

\* The fallback branch without one.
NotFound(metal) == Raise("HTTPException", 404)

\* get_metal_price once fetch_metal_price_from_api has returned api_data.
get_metal_price(metal, api_data, now) ==
    IF Truthy(api_data)
    THEN FromApi(metal, api_data, now)
    ELSE LET mock_data == MockGet(Lower(metal))
         IN  IF mock_data = None
             THEN NotFound(metal)
             ELSE FromMock(metal, mock_data, now)

----------------------------------------------------------------------------
(* The routes. *)

NoReply == [status_code |-> 0, body |-> <<>>, detail |-> "pending"]
Reply(status, body, detail) == [status_code |-> status, body |-> body, detail |-> detail]

\* Filter of a sequence, in order.
RECURSIVE SelectReturned(_)
SelectReturned(results) ==
    IF results = <<>> THEN <<>>
    ELSE LET rest == SelectReturned(Tail(results))
         IN  IF Head(results).kind = "return"
             THEN <<Head(results).value>> \o rest
             ELSE rest

\* Mutant of AllReply: a gather without return_exceptions, where the first
\* exception fails the batch.
AllReplyFailFast(results) ==
    IF \E k \in 1..Len(results) : results[k].kind = "raise"
    THEN Reply(500, <<>>, "Internal Server Error")
    ELSE Reply(200, SelectReturned(results), "")

\* Records ordered by the time they were made, for the mutant below.
RECURSIVE InsertByTime(_, _)
InsertByTime(rec, recs) ==
    IF recs = <<>> THEN <<rec>>
    ELSE IF rec.timestamp <= Head(recs).timestamp THEN <<rec>> \o recs
    ELSE <<Head(recs)>> \o InsertByTime(rec, Tail(recs))

RECURSIVE SortByTime(_)
SortByTime(recs) ==
    IF recs = <<>> THEN <<>> ELSE InsertByTime(Head(recs), SortByTime(Tail(recs)))

\* Mutant of AllReply: the results are collected as the coroutines complete
\* (asyncio.as_completed), not in the order of `metals`.
AllReplyAsCompleted(results) ==
    LET successful_results == SortByTime(SelectReturned(results))
    IN  IF successful_results = <<>>
        THEN Reply(500, <<>>, "Could not fetch any metal prices")
        ELSE Reply(200, successful_results, "")

\* get_all_metal_prices after the gather: `results` holds, per metal and in
\* the order of `metals`, the response returned or the exception raised.
AllReply(results) ==
    LET successful_results == SelectReturned(results)
    IN  IF successful_results = <<>>
        THEN Reply(500, <<>>, "Could not fetch any metal prices")
        ELSE Reply(200, successful_results, "")

\* get_single_metal_price: the response, the HTTPException's status, or 500
\* for an exception no handler knows.  The body holds the one object.
SingleReply(res) ==
    IF res.kind = "return" THEN Reply(200, <<res.value>>, "")
    ELSE IF res.exc = "HTTPException" THEN Reply(res.status_code, <<>>, "Metal not found")
    ELSE Reply(500, <<>>, "Internal Server Error")

Tasks == 1..Len(metals)

\* Mutant of RequestsIssued: the request goes out before the metal is checked.
RequestsIssuedUnchecked(metal) == 1

\* The requests issued by the time fetch_metal_price_from_api first suspends:
\* none for a metal without an endpoint, one client.get otherwise.
RequestsIssued(metal) == IF Supported(metal) THEN 1 ELSE 0

\* Mutant of Runnable: the coroutines are awaited one after the other.
RunnableInOrder(i, at) == pc[i] = at /\ \A j \in 1..(i - 1) : pc[j] = "done"

\* A coroutine handed to the event loop may take its step whatever the others do.
Runnable(i, at) == pc[i] = at

Init ==
    /\ endpoint = "idle"
    /\ metals = <<>>
    /\ pc = <<>>
    /\ requests = <<>>
    /\ upstream = <<>>
    /\ logged = <<>>
    /\ result = <<>>
    /\ clock = 0
    /\ response = NoReply

\* A route creates its get_metal_price coroutines.
Schedule(route, names) ==
    /\ endpoint = "idle"
    /\ endpoint' = route
    /\ metals' = names
    /\ pc' = [i \in 1..Len(names) |-> "scheduled"]
    /\ requests' = [i \in 1..Len(names) |-> 0]
    /\ upstream' = [i \in 1..Len(names) |-> NoResponse]
    /\ logged' = [i \in 1..Len(names) |-> "none"]
    /\ result' = [i \in 1..Len(names) |-> NoResult]
    /\ UNCHANGED <<clock, response>>

\* GET /metals/{metal}
GetSingle(metal) == Schedule("single", <<metal>>)

\* GET /metals
GetAll == Schedule("all", AllMetals)

\* Coroutine i runs from its start to its first suspension: to the await of
\* client.get, or, for a metal without an endpoint, to its end.
Begin(i) ==
    /\ Runnable(i, "scheduled")
    /\ requests' = [requests EXCEPT ![i] = @ + RequestsIssued(metals[i])]
    /\ IF Supported(metals[i])
       THEN /\ pc' = [pc EXCEPT ![i] = "awaiting"]
            /\ UNCHANGED <<logged, result, clock>>
       ELSE /\ pc' = [pc EXCEPT ![i] = "done"]
            /\ logged' = [logged EXCEPT ![i] = FetchUnsupported.log]
            /\ result' = [result EXCEPT ![i] =
                             get_metal_price(metals[i], FetchUnsupported.ret, clock)]
            /\ clock' = clock + 1
    /\ UNCHANGED <<endpoint, metals, upstream, response>>

\* Coroutine i resumes with what client.get produced and runs to its end.
Resume(i, resp) ==
    /\ Runnable(i, "awaiting")
    /\ clock' = clock + 1
    /\ upstream' = [upstream EXCEPT ![i] = resp]
    /\ logged' = [logged EXCEPT ![i] = FetchResponse(resp).log]
    /\ result' = [result EXCEPT ![i] =
                     get_metal_price(metals[i], FetchResponse(resp).ret, clock)]
    /\ pc' = [pc EXCEPT ![i] = "done"]
    /\ UNCHANGED <<endpoint, metals, requests, response>>

\* The provider answers, or the connection fails.
Respond(i) ==
    /\ Runnable(i, "awaiting")
    /\ \E resp \in Responses(endpoint, i) : Resume(i, resp)

\* Mutant of Timeout: a client built with timeout=None never ends a request.
TimeoutNever(i) == FALSE /\ Resume(i, TimeoutException)

\* The client's timeout=10.0 ends the request.
Timeout(i) == Resume(i, TimeoutException)

\* get_single_metal_price returns what its await produced.
ReturnSingle ==
    /\ endpoint = "single"
    /\ response = NoReply
    /\ pc[1] = "done"
    /\ response' = SingleReply(result[1])
    /\ UNCHANGED <<endpoint, metals, pc, requests, upstream, logged, result, clock>>

\* asyncio.gather returns once every coroutine is done; the route replies.
ReturnAll ==
    /\ endpoint = "all"
    /\ response = NoReply
    /\ \A i \in Tasks : pc[i] = "done"
    /\ response' = AllReply(result)
    /\ UNCHANGED <<endpoint, metals, pc, requests, upstream, logged, result, clock>>

Next ==
    \/ \E metal \in MetalNames : GetSingle(metal)
    \/ GetAll
    \/ \E i \in Tasks : Begin(i)
    \/ \E i \in Tasks : Respond(i)
    \/ \E i \in Tasks : Timeout(i)
    \/ ReturnSingle
    \/ ReturnAll

Spec == Init /\ [][Next]_vars

\* The scheduling the code gives: the event loop runs every coroutine that is
\* ready, the client's timeout fires on a request that stays unanswered, and a
\* route whose await is over returns.  The provider owes nothing: Respond has
\* no fairness, so a connection may hang for ever.
Fairness ==
    /\ WF_vars(\E i \in Tasks : Begin(i))
    /\ WF_vars(\E i \in Tasks : Timeout(i))
    /\ WF_vars(ReturnSingle \/ ReturnAll)

SpecFair == Spec /\ Fairness

----------------------------------------------------------------------------
(* Properties. *)

Replied == response # NoReply
Returned(i) == pc[i] = "done" /\ result[i].kind = "return"

\* fetch_metal_price_from_api of coroutine i returned None after a request:
\* it logged the warning or the error of its failure.
FetchFailed(i) == pc[i] = "done" /\ requests[i] > 0 /\ logged[i] # "none"

\* fetch_metal_price_from_api of coroutine i returned the converted quote.
FetchSucceeded(i) == pc[i] = "done" /\ requests[i] > 0 /\ logged[i] = "none"

PriceFields == {"price_per_gram_inr"} \cup OhlcFields

\* The record carries exactly the entry of the fallback table for `metal`.
IsFallbackOf(rec, metal) ==
    \A f \in PriceFields \cup {"change_24h", "change_pct"} :
        rec[f] = MOCK_METAL_PRICES[metal][f]

\* C1: for a supported metal, whatever the provider does, get_metal_price
\* returns a record whose price_per_gram_inr and four OHLC fields are > 0.
C1_PricesPositive ==
    \A i \in Tasks :
        pc[i] = "done" /\ Supported(metals[i]) =>
            /\ result[i].kind = "return"
            /\ \A f \in PriceFields : result[i].value[f] > 0

\* C2: GET /metals returns exactly 4 records whose metal fields, lowercased,
\* are exactly gold, silver, platinum and palladium, whatever the provider does.
C2_FourMetals ==
    endpoint = "all" /\ Replied =>
        /\ response.status_code = 200
        /\ Len(response.body) = 4
        /\ { Lower(response.body[k].metal) : k \in 1..Len(response.body) } = metal_endpoints

\* C3: for a metal name without an endpoint, get_metal_price raises the 404
\* HTTPException and nothing else: the 400 raised inside the fetch is only
\* logged, no record is returned, and GET /metals/{metal} answers 404.
C3_UnsupportedIs404 ==
    \A i \in Tasks :
        pc[i] = "done" /\ ~Supported(metals[i]) =>
            /\ result[i] = Raise("HTTPException", 404)
            /\ (endpoint = "single" /\ Replied =>
                    response.status_code = 404 /\ response.body = <<>>)

C3_Witness ==
    /\ endpoint = "single" /\ Replied
    /\ metals[1] = <<"i","n","v","a","l","i","d">>
    /\ logged[1] = "error: 400 Unsupported metal"
    /\ response.status_code = 404

\* C4: for a supported metal whose fetch failed (transport error, timeout,
\* non-200 status, exception while parsing), get_metal_price returns a record
\* that carries the metal's fallback entry unchanged, and the route answers 200.
C4_FailureFallsBack ==
    \A i \in Tasks :
        FetchFailed(i) =>
            /\ result[i].kind = "return"
            /\ IsFallbackOf(result[i].value, Lower(metals[i]))
            /\ (endpoint = "single" /\ Replied =>
                    response.status_code = 200 /\ response.body = <<result[i].value>>)

C4_Witness ==
    /\ endpoint = "single" /\ Replied
    /\ metals[1] = <<"G","O","L","D">>
    /\ upstream[1].kind = "response" /\ upstream[1].status_code = 200
    /\ logged[1] = "error: arithmetic"
    /\ response.body[1].price_per_gram_inr = 720000

\* C5: when the fetch fails for all four metals, GET /metals answers 200 with
\* 4 records, each the fallback entry of its metal; the 500 "Could not fetch
\* any metal prices" is not the answer.
C5_AllFailedAllFallback ==
    endpoint = "all" /\ Replied /\ (\A i \in Tasks : FetchFailed(i)) =>
        /\ response.status_code = 200
        /\ Len(response.body) = 4
        /\ \A k \in 1..4 : IsFallbackOf(response.body[k], AllMetals[k])

C5_Witness ==
    /\ endpoint = "all" /\ Replied
    /\ \A i \in Tasks : FetchFailed(i)
    /\ upstream[1] = TimeoutException
    /\ upstream[2].status_code = 500
    /\ Len(response.body) = 4

\* inr is usd * 83.5 / 31.1035 rounded to the nearest hundredth:
\* 2 * |inr * 311035 - usd * 835000| <= 311035, with the factor 5 common to
\* both taken out and the difference computed per thousand.
IsConverted(inr, usd) ==
    LET d    == GramsPerOzE4 \div 5
        n    == (usd_to_inr_x10 * 1000) \div 5
        hi   == (inr \div 1000) * d - (usd \div 1000) * n
        lo   == (inr % 1000) * d - (usd % 1000) * n
        diff == hi * 1000 + lo
    IN  /\ -4 * d <= hi /\ hi <= 4 * d
        /\ 2 * diff <= d /\ -2 * diff <= d

\* The payload {price: 2000, ch: 10, chp: 0.5}.
C6_Payload == [EmptyPayload EXCEPT !.price = Num(200000), !.ch = Num(1000), !.chp = Num(50)]

C6_Case(i) ==
    /\ pc[i] = "done" /\ Lower(metals[i]) = gold
    /\ upstream[i] = HttpResponse(200, "object", C6_Payload)

\* C6 as stated: for gold with {price: 2000, ch: 10, chp: 0.5} the price per
\* gram is about 5368.18 (to within a hundredth).
C6_Original ==
    \A i \in Tasks :
        C6_Case(i) =>
            /\ result[i].kind = "return"
            /\ result[i].value.price_per_gram_inr \in 536817..536819

\* C6 as amended: for gold with {price: 2000, ch: 10, chp: 0.5} the price per
\* gram is 5369.17, and after every successful fetch each of price, prev_close,
\* open, high and low is its own USD-per-ounce value (the quoted price where
\* the field is missing) times 83.5 / 31.1035, rounded to 2 decimals.
C6_Conversion ==
    \A i \in Tasks :
        /\ C6_Case(i) =>
              result[i].kind = "return" /\ result[i].value.price_per_gram_inr = 536917
        /\ FetchSucceeded(i) /\ Returned(i) =>
              LET data  == upstream[i].data
                  price == IF data.price = Absent THEN Num(0) ELSE data.price
              IN  /\ IsConverted(result[i].value.price_per_gram_inr, price.v)
                  /\ \A f \in OhlcFields :
                        IsConverted(result[i].value[f],
                                    IF data[f] = Absent THEN price.v ELSE data[f].v)

C6_Witness ==
    /\ endpoint = "single"
    /\ C6_Case(1)
    /\ Returned(1)
    /\ result[1].value.price_per_gram_inr = 536917
    /\ result[1].value.high_price = 536917

\* C7: on GET /metals the four coroutines are scheduled together and the reply
\* is made only when all four are done; a coroutine that has not begun can
\* begin, and one awaiting its response can resume, whatever the others do.
C7_Independent ==
    endpoint = "all" =>
        /\ Len(metals) = 4
        /\ (Replied => \A i \in Tasks : pc[i] = "done")
        /\ \A i \in Tasks :
              /\ pc[i] = "scheduled" => ENABLED Begin(i)
              /\ pc[i] = "awaiting" => ENABLED Respond(i) /\ ENABLED Timeout(i)

C7_Witness ==
    /\ endpoint = "all" /\ ~Replied
    /\ pc[1] = "awaiting"
    /\ \A i \in 2..4 : Returned(i) /\ FetchSucceeded(i)

\* A successful fetch that became a record.
C8_Case(i) == FetchSucceeded(i) /\ Returned(i)

\* C8 as stated: on a 200 response every missing optional field, ch and chp
\* included, takes the quoted price.
C8_Original ==
    \A i \in Tasks :
        C8_Case(i) =>
            LET data == upstream[i].data
                rec  == result[i].value
            IN  /\ \A f \in OhlcFields :
                      data[f] = Absent => rec[f] = rec.price_per_gram_inr
                /\ data.ch = Absent => rec.change_24h = (IF data.price = Absent THEN 0 ELSE data.price.v)
                /\ data.chp = Absent => rec.change_pct = (IF data.price = Absent THEN 0 ELSE data.price.v)

\* C8 as amended: on a 200 response a missing prev_close_price, open_price,
\* high_price or low_price takes the quoted price, so the field equals
\* price_per_gram_inr; a missing ch or chp takes 0, and so does a missing price.
C8_Defaults ==
    \A i \in Tasks :
        C8_Case(i) =>
            LET data == upstream[i].data
                rec  == result[i].value
            IN  /\ \A f \in OhlcFields :
                      data[f] = Absent => rec[f] = rec.price_per_gram_inr
                /\ data.ch = Absent => rec.change_24h = 0
                /\ data.chp = Absent => rec.change_pct = 0
                /\ data.price = Absent => rec.price_per_gram_inr = 0

C8_Witness ==
    /\ endpoint = "single"
    /\ C8_Case(1)
    /\ upstream[1].data.price = Num(200000)
    /\ upstream[1].data.open_price = Absent
    /\ upstream[1].data.ch = Absent
    /\ result[1].value.open_price = 536917
    /\ result[1].value.change_24h = 0

\* C9: GET /metals drops the resolutions that raised: the body holds exactly
\* the records that were returned, and the answer is the 500 "Could not fetch
\* any metal prices" if and only if no resolution returned a record.
C9_DropsFailures ==
    endpoint = "all" /\ Replied =>
        LET returned == { i \in Tasks : result[i].kind = "return" }
        IN  /\ Len(response.body) = Cardinality(returned)
            /\ { response.body[k] : k \in 1..Len(response.body) }
                  = { result[i].value : i \in returned }
            /\ response.status_code \in {200, 500}
            /\ response.status_code = 500 <=> returned = {}
            /\ response.status_code = 500 =>
                  response.detail = "Could not fetch any metal prices"

C9_Witness ==
    /\ endpoint = "all" /\ Replied
    /\ result[2].kind = "raise"
    /\ \A i \in {1, 3, 4} : result[i].kind = "return"
    /\ response.status_code = 200
    /\ Len(response.body) = 3

\* C10: one get_metal_price issues exactly one request for a metal with an
\* endpoint and none for any other name, and a failed fetch is followed by
\* the fallback lookup, never by a second request.
C10_OneRequest ==
    \A i \in Tasks :
        /\ pc[i] = "scheduled" => requests[i] = 0
        /\ pc[i] # "scheduled" => requests[i] = IF Supported(metals[i]) THEN 1 ELSE 0
        /\ FetchFailed(i) => requests[i] = 1 /\ result[i].kind = "return"

C10_Witness ==
    /\ endpoint = "single" /\ Replied
    /\ FetchFailed(1)
    /\ upstream[1] = ConnectError
    /\ requests[1] = 1
    /\ IsFallbackOf(response.body[1], Lower(metals[1]))

\* C11: every GET /metals/{metal} and GET /metals that has begun ends with a
\* reply even if the provider never answers: the request of each coroutine is
\* ended by its own timeout, a timed-out metal gets its fallback record, and
\* the route then returns.
C11_Completes ==
    /\ (endpoint # "idle") ~> Replied
    /\ [](\A i \in Tasks :
            pc[i] = "done" /\ upstream[i] = TimeoutException =>
                Returned(i) /\ IsFallbackOf(result[i].value, Lower(metals[i])))

C11_Witness ==
    /\ endpoint = "all" /\ Replied
    /\ \A i \in Tasks : upstream[i] = TimeoutException
    /\ response.status_code = 200
    /\ Len(response.body) = 4
    /\ IsFallbackOf(response.body[4], palladium)

\* C12: the body of GET /metals lists the returned records in the order gold,
\* silver, platinum, palladium whatever order the coroutines ended in, and the
\* price fields of each record are the conversion of that metal's own quote
\* or that metal's own fallback entry.
C12_OrderAndSource ==
    endpoint = "all" /\ Replied =>
        LET returned == { i \in Tasks : result[i].kind = "return" }
        IN  /\ Len(response.body) = Cardinality(returned)
            /\ \A i \in returned :
                  LET rec   == response.body[Cardinality({ j \in returned : j <= i })]
                      data  == upstream[i].data
                      quote == IF data.price = Absent THEN 0 ELSE data.price.v
                  IN  /\ Lower(rec.metal) = AllMetals[i]
                      /\ \/ /\ FetchFailed(i)
                            /\ \A f \in PriceFields : rec[f] = MOCK_METAL_PRICES[AllMetals[i]][f]
                         \/ /\ FetchSucceeded(i)
                            /\ IsConverted(rec.price_per_gram_inr, quote)
                            /\ \A f \in OhlcFields :
                                  IsConverted(rec[f], IF data[f] = Absent THEN quote ELSE data[f].v)

\* Palladium ended first and gold last; gold and platinum carry their own
\* quotes, silver and palladium their own fallback entries.
C12_Witness ==
    /\ endpoint = "all" /\ Replied
    /\ Len(response.body) = 4
    /\ response.body[4].timestamp < response.body[3].timestamp
    /\ response.body[3].timestamp < response.body[2].timestamp
    /\ response.body[2].timestamp < response.body[1].timestamp
    /\ FetchSucceeded(1) /\ response.body[1].price_per_gram_inr = 536917
    /\ FetchFailed(2) /\ response.body[2].price_per_gram_inr = 8550
    /\ FetchSucceeded(3) /\ upstream[3].data.price = Num(BatchQuote(3))
    /\ FetchFailed(4) /\ response.body[4].price_per_gram_inr = 285500

====
